---------------------------- MODULE Spec2Model ----------------------------
(***************************************************************************)
(* A model of analyze_setups.py: the scan of ./setups/*.json, the          *)
(* per-file load / metadata extraction / component count, and the wide     *)
(* table written to setups_analysis.csv.                                   *)
(*                                                                         *)
(* Python strings are sequences of one-character strings, so that          *)
(* basename, str.replace and the lexicographic order of sorted() are       *)
(* computed character by character.  JSON values are tagged records.       *)
(***************************************************************************)
EXTENDS Integers, Sequences, FiniteSets, TLC

(***************************************************************************)
(* Bounds of the model.                                                    *)
(***************************************************************************)
MaxFiles == 2        \* *.json files the directory may hold
MaxComponents == 2   \* entries of a generated uc2_components list
MaxPathLen == 1      \* characters of a generated component file path
MaxRuns == 2         \* invocations of main() on the unchanged directory

(***************************************************************************)
(* Strings.                                                                *)
(***************************************************************************)
\* ord(c) for the characters the model uses
Ord(c) ==
    CASE c = " "  -> 32
      [] c = "-"  -> 45
      [] c = "."  -> 46
      [] c = "/"  -> 47
      [] c = ":"  -> 58
      [] c = "\\" -> 92
      [] c = "_"  -> 95
      [] c = "a"  -> 97
      [] c = "b"  -> 98
      [] c = "c"  -> 99
      [] c = "d"  -> 100
      [] c = "j"  -> 106
      [] c = "n"  -> 110
      [] c = "o"  -> 111
      [] c = "s"  -> 115
      [] c = "t"  -> 116
      [] c = "x"  -> 120

Min2(a, b) == IF a < b THEN a ELSE b

\* s < t for Python str: code point order, a proper prefix is smaller
LexLess(s, t) ==
    \E i \in 1..(Min2(Len(s), Len(t)) + 1) :
        /\ \A j \in 1..(i - 1) : s[j] = t[j]
        /\ \/ i > Len(s) /\ i <= Len(t)
           \/ i <= Len(s) /\ i <= Len(t) /\ Ord(s[i]) < Ord(t[i])

\* s[i:] with i a 0-based Python index
Suffix(s, i) == SubSeq(s, i + 1, Len(s))

EndsWith(s, suf) ==
    /\ Len(s) >= Len(suf)
    /\ Suffix(s, Len(s) - Len(suf)) = suf

\* sorted(S) for a set of strings
RECURSIVE SortedStrings(_)
SortedStrings(S) ==
    IF S = {} THEN <<>>
    ELSE LET m == CHOOSE x \in S : \A y \in S \ {x} : LexLess(x, y)
         IN  <<m>> \o SortedStrings(S \ {m})

\* every sequence over alphabet A of length at most n
RECURSIVE SeqsUpTo(_, _)
SeqsUpTo(A, n) ==
    IF n = 0 THEN {<<>>}
    ELSE LET shorter == SeqsUpTo(A, n - 1)
         IN  shorter \cup {Append(s, a) : s \in shorter, a \in A}

Range(s) == {s[i] : i \in DOMAIN s}

(***************************************************************************)
(* JSON values as json.load returns them.                                  *)
(***************************************************************************)
JNull == [t |-> "null"]                  \* None
JBool(b) == [t |-> "bool", b |-> b]
JNum(n) == [t |-> "num", n |-> n]
JStr(s) == [t |-> "str", s |-> s]
JList(l) == [t |-> "list", items |-> l]
JDict(d) == [t |-> "dict", d |-> d]      \* d: a function from keys to values

EmptyDict == JDict([k \in {} |-> JNull])

\* bool(v)
Truthy(v) ==
    CASE v.t = "null" -> FALSE
      [] v.t = "bool" -> v.b
      [] v.t = "num"  -> v.n # 0
      [] v.t = "str"  -> v.s # <<>>
      [] v.t = "list" -> v.items # <<>>
      [] v.t = "dict" -> DOMAIN v.d # {}

\* The outcome of a call: a value, or an exception that nothing catches.
Return(v) == [exc |-> "none", val |-> v]
Raise(e) == [exc |-> e]

\* len(v)
PyLen(v) ==
    CASE v.t = "list" -> Return(Len(v.items))
      [] v.t = "str"  -> Return(Len(v.s))
      [] v.t = "dict" -> Return(Cardinality(DOMAIN v.d))
      [] OTHER        -> Raise("TypeError")

\* the elements a for loop over v visits (v a list, str or dict); the keys
\* of a dict and the characters of a str are str objects
Iterate(v) ==
    CASE v.t = "list" -> v.items
      [] v.t = "str"  -> [i \in 1..Len(v.s) |-> JStr(<<v.s[i]>>)]
      [] v.t = "dict" -> [i \in 1..Cardinality(DOMAIN v.d) |-> JStr(<<>>)]

\* data.get(key, default) on a dict
Get(data, key, default) ==
    IF key \in DOMAIN data.d THEN data.d[key] ELSE default

(***************************************************************************)
(* os.path.basename, in the two flavours of os.path.                       *)
(***************************************************************************)
\* p.find(c, start) over a set of characters, 0-based, -1 when absent
FindFrom(p, chars, start) ==
    LET hits == {i \in start..(Len(p) - 1) : p[i + 1] \in chars}
    IN  IF hits = {} THEN -1
        ELSE CHOOSE i \in hits : \A j \in hits : i <= j

\* p.rfind over a set of characters, 0-based, -1 when absent
RFind(p, chars) ==
    LET hits == {i \in 0..(Len(p) - 1) : p[i + 1] \in chars}
    IN  IF hits = {} THEN -1
        ELSE CHOOSE i \in hits : \A j \in hits : i >= j

\* posixpath.basename: i = p.rfind('/') + 1; return p[i:]
posix_basename(p) == Suffix(p, RFind(p, {"/"}) + 1)

NtSeps == {"\\", "/"}

\* ntpath.splitdrive(p)[1] (CPython 3.11): a UNC prefix or a drive letter
\* is cut off before the path is split
nt_splitdrive_tail(p) ==
    IF Len(p) >= 2 /\ p[1] \in NtSeps /\ p[2] \in NtSeps
    THEN LET index == FindFrom(p, NtSeps, 2)
         IN  IF index = -1 THEN <<>>
             ELSE LET index2 == FindFrom(p, NtSeps, index + 1)
                  IN  IF index2 = -1 THEN <<>> ELSE Suffix(p, index2)
    ELSE IF Len(p) >= 2 /\ p[2] = ":" THEN Suffix(p, 2)
    ELSE p

\* ntpath.basename: the part after the last '/' or '\' of the drive-less path
nt_basename(p) ==
    LET tail == nt_splitdrive_tail(p)
    IN  Suffix(tail, RFind(tail, NtSeps) + 1)

\* os.path.basename(file_path): TypeError for anything but a str
basename(file_path, os_name) ==
    IF file_path.t # "str" THEN Raise("TypeError")
    ELSE IF os_name = "nt" THEN Return(nt_basename(file_path.s))
    ELSE Return(posix_basename(file_path.s))

(***************************************************************************)
(* Record Loader.  A file on disk is unreadable (open or decoding fails),  *)
(* holds text that is no JSON, or holds one JSON value.                    *)
(***************************************************************************)
Unreadable == [k |-> "unreadable"]
Malformed == [k |-> "malformed"]
JsonFile(v) == [k |-> "json", v |-> v]

\* load_json_file with except branches that return an empty document
\* instead of None
load_json_file_empty_document(content) ==
    CASE content.k = "malformed"  -> [data |-> EmptyDict, logged |-> {"invalid_json"}]
      [] content.k = "unreadable" -> [data |-> EmptyDict, logged |-> {"read_error"}]
      [] content.k = "json"       -> [data |-> content.v, logged |-> {}]

\* load_json_file returns None with the error it logged; json.load of the
\* text "null" is None too, and logs nothing
load_json_file(content) ==
    CASE content.k = "malformed"  -> [data |-> JNull, logged |-> {"invalid_json"}]
      [] content.k = "unreadable" -> [data |-> JNull, logged |-> {"read_error"}]
      [] content.k = "json"       -> [data |-> content.v, logged |-> {}]

(***************************************************************************)
(* Metadata Extractor.                                                     *)
(***************************************************************************)
\* the keys read with default ''
StringFields ==
    {"name", "collection", "author", "github_link", "description",
     "category", "version", "createdAt"}

FixedFields == {"filename", "uc2_verified", "total_components"} \cup StringFields

\* extract_setup_metadata(data, filename); data.get exists on a dict only
extract_setup_metadata(data, filename) ==
    IF data.t # "dict" THEN Raise("AttributeError")
    ELSE Return(
        [filename         |-> JStr(filename),
         name             |-> Get(data, "name", JStr(<<>>)),
         uc2_verified     |-> Get(data, "uc2_verified", JBool(FALSE)),
         collection       |-> Get(data, "collection", JStr(<<>>)),
         author           |-> Get(data, "author", JStr(<<>>)),
         github_link      |-> Get(data, "github_link", JStr(<<>>)),
         description      |-> Get(data, "description", JStr(<<>>)),
         category         |-> Get(data, "category", JStr(<<>>)),
         version          |-> Get(data, "version", JStr(<<>>)),
         createdAt        |-> Get(data, "createdAt", JStr(<<>>)),
         total_components |-> JNum(0)])

(***************************************************************************)
(* Component Counter.                                                      *)
(***************************************************************************)
\* HasFilePath without the test "if file_path:"
HasFilePath_unchecked(component) ==
    /\ component.t = "dict"
    /\ "file" \in DOMAIN component.d

\* the guard of the loop body: a dict with a truthy 'file'
HasFilePath(component) ==
    /\ component.t = "dict"
    /\ "file" \in DOMAIN component.d
    /\ Truthy(component.d["file"])

\* component_files after the loop over the first n entries
RECURSIVE component_files(_, _, _)
component_files(entries, n, os_name) ==
    IF n = 0 THEN Return(<<>>)
    ELSE LET before == component_files(entries, n - 1, os_name)
             component == entries[n]
         IN  IF before.exc # "none" THEN before
             ELSE IF ~HasFilePath(component) THEN before
             ELSE LET filename == basename(component.d["file"], os_name)
                  IN  IF filename.exc # "none" THEN filename
                      ELSE Return(Append(before.val, filename.val))

\* dict(Counter(xs))
Counter(xs) ==
    [x \in Range(xs) |-> Cardinality({i \in DOMAIN xs : xs[i] = x})]

\* count_components_by_file(uc2_components), reached after len() succeeded
count_components_by_file(uc2_components, os_name) ==
    IF ~Truthy(uc2_components) THEN Return(<<>>)
    ELSE LET entries == Iterate(uc2_components)
             files == component_files(entries, Len(entries), os_name)
         IN  IF files.exc # "none" THEN files
             ELSE Return(Counter(files.val))

(***************************************************************************)
(* Corpus Scanner: one iteration of the loop of analyze_setups_folder.     *)
(***************************************************************************)
JsonExt == <<".", "j", "s", "o", "n">>

\* setups_path.glob('*.json') over the names of the directory
Glob(names) == {f \in names : EndsWith(f, JsonExt)}

\* setup_metadata['total_components'] = len(uc2_components)
TotalComponents(uc2_components) == PyLen(uc2_components)

\* UpdateUniverse with the set assigned instead of updated
UpdateUniverse_assign(universe, component_counts) == DOMAIN component_counts

\* all_component_files.update(component_counts.keys())
UpdateUniverse(universe, component_counts) ==
    universe \cup DOMAIN component_counts

\* What one iteration leaves behind: next = "continue" after a file that
\* was skipped or appended, or the exception that leaves the loop and main().
LoopResult(next, list, universe, logged) ==
    [next |-> next, list |-> list, universe |-> universe, logged |-> logged]

ProcessOne(name, content, list, universe, os_name) ==
    LET loaded == load_json_file(content)
        data == loaded.data
    IN  IF data = JNull
        THEN LoopResult("continue", list, universe, loaded.logged)
        ELSE
        LET setup_metadata == extract_setup_metadata(data, name)
        IN  IF setup_metadata.exc # "none"
            THEN LoopResult(setup_metadata.exc, list, universe, {})
            ELSE
            LET uc2_components == Get(data, "uc2_components", JList(<<>>))
                total == TotalComponents(uc2_components)
            IN  IF total.exc # "none"
                THEN LoopResult(total.exc, list, universe, {})
                ELSE
                LET component_counts ==
                        count_components_by_file(uc2_components, os_name)
                IN  IF component_counts.exc # "none"
                    THEN LoopResult(component_counts.exc, list, universe, {})
                    ELSE
                    LET record ==
                            [setup_metadata.val EXCEPT
                                !.total_components = JNum(total.val)]
                            @@ [component_counts |-> component_counts.val]
                    IN  LoopResult("continue",
                                   Append(list, record),
                                   UpdateUniverse(universe, component_counts.val),
                                   {})

(***************************************************************************)
(* Table Builder: the rows, the DataFrame, the sort and the file written.  *)
(***************************************************************************)
\* s.replace(old, new) for one-character old and new
Replace(s, old, new) == [i \in 1..Len(s) |-> IF s[i] = old THEN new ELSE s[i]]

\* f"component_{component_file.replace('.', '_').replace(' ', '_').replace('-', '_')}"
col_name(component_file) ==
    <<"component_">> \o
    Replace(Replace(Replace(component_file, ".", "_"), " ", "_"), "-", "_")

\* the keys of the row literal, in the order they are written
FixedColumns ==
    <<"filename", "name", "uc2_verified", "collection", "author",
      "github_link", "description", "category", "version", "createdAt",
      "total_components">>

\* row[key] = value on a dict that keeps insertion order: a key already
\* there keeps its place and takes the new value
DictSet(row, key, value) ==
    IF \E i \in DOMAIN row : row[i].key = key
    THEN [i \in DOMAIN row |->
            IF row[i].key = key THEN [key |-> key, value |-> value] ELSE row[i]]
    ELSE Append(row, [key |-> key, value |-> value])

\* component_counts.get(component_file, 0)
CountOf(component_counts, component_file) ==
    IF component_file \in DOMAIN component_counts
    THEN component_counts[component_file] ELSE 0

\* the row after the first n iterations of the loop over sorted(all_component_files)
RECURSIVE AddComponentColumns(_, _, _, _)
AddComponentColumns(row, columns, n, component_counts) ==
    IF n = 0 THEN row
    ELSE DictSet(AddComponentColumns(row, columns, n - 1, component_counts),
                 col_name(columns[n]),
                 JNum(CountOf(component_counts, columns[n])))

BuildRow(setup, all_component_files) ==
    LET fixed == [i \in DOMAIN FixedColumns |->
                    [key |-> <<FixedColumns[i]>>, value |-> setup[FixedColumns[i]]]]
        columns == SortedStrings(all_component_files)
    IN  AddComponentColumns(fixed, columns, Len(columns), setup.component_counts)

\* pd.DataFrame(rows) for rows that all have the same keys in the same order
DataFrame(rows) ==
    [columns |-> [i \in DOMAIN rows[1] |-> rows[1][i].key],
     data    |-> [r \in DOMAIN rows |-> [i \in DOMAIN rows[r] |-> rows[r][i].value]]]

RemoveAt(s, i) == SubSeq(s, 1, i - 1) \o SubSeq(s, i + 1, Len(s))

\* the rows in ascending order of their first value, the filename
RECURSIVE SortRows(_)
SortRows(data) ==
    IF data = <<>> THEN <<>>
    ELSE LET i == CHOOSE k \in DOMAIN data :
                    \A j \in DOMAIN data : ~LexLess(data[j][1].s, data[k][1].s)
         IN  <<data[i]>> \o SortRows(RemoveAt(data, i))

\* sort_values left out
sort_values_skipped(df) == df

\* df.sort_values('filename')
sort_values(df) == [df EXCEPT !.data = SortRows(df.data)]

NoFile == [exists |-> FALSE]

\* create_csv_database: nothing but an error for an empty list; otherwise
\* df.to_csv writes the header and the sorted rows
create_csv_database(setup_data_list, all_component_files) ==
    IF setup_data_list = <<>>
    THEN [wrote |-> FALSE, file |-> NoFile, logged |-> {"no_setup_data"}]
    ELSE LET rows == [i \in DOMAIN setup_data_list |->
                        BuildRow(setup_data_list[i], all_component_files)]
             df == sort_values(DataFrame(rows))
         IN  [wrote |-> TRUE,
              file |-> [exists |-> TRUE, columns |-> df.columns, data |-> df.data],
              logged |-> {}]

\* main() after analyze_setups_folder returned
main_report(setup_data_list, all_component_files) ==
    IF setup_data_list = <<>>
    THEN [wrote |-> FALSE, file |-> NoFile, logged |-> {"no_valid_setups"}]
    ELSE create_csv_database(setup_data_list, all_component_files)

(***************************************************************************)
(* The program state.                                                      *)
(***************************************************************************)
VARIABLES
    os_name,              \* the flavour of os.path: "posix" or "nt"
    dir_exists,           \* whether ./setups exists
    files,                \* the directory: file name -> what the file holds
    pc,                   \* "start", "scan", "done" (main returned), "crashed"
    json_files,           \* the list glob returned, in enumeration order
    idx,                  \* position of the for loop in json_files
    setup_data_list,
    all_component_files,
    log,                  \* the errors logged by this run
    wrote,                \* whether this run called to_csv
    csv_file,             \* setups_analysis.csv on disk
    run,                  \* which invocation of main() this is
    prev_csv              \* setups_analysis.csv as the previous run left it

vars ==
    <<os_name, dir_exists, files, pc, json_files, idx, setup_data_list,
      all_component_files, log, wrote, csv_file, run, prev_csv>>

(***************************************************************************)
(* Inputs.                                                                 *)
(***************************************************************************)
FileStems == <<"a", "b", "c", "d">>

JsonNames == {<<FileStems[i]>> \o JsonExt : i \in 1..MaxFiles}

\* a file of the directory that the pattern does not match; every existing
\* directory of the model holds it
OtherName == <<"n", ".", "t", "x", "t">>

\* a component entry {"file": v}
Comp(v) == JDict([k \in {"file"} |-> v])

Path(s) == Comp(JStr(s))

Doc(d) == JsonFile(JDict(d))

\* The files the scan is run on: the ways a file fails, and documents whose
\* uc2_components is absent (beside a null name), null, a string, and lists
\* whose entries share basenames, differ only in '.' and '-', use both
\* separators, or are no usable mapping.
Corpus ==
    { Unreadable,
      Malformed,
      JsonFile(JNull),
      JsonFile(JList(<<>>)),
      Doc([k \in {"name"} |-> JNull]),
      Doc([k \in {"uc2_components"} |-> JNull]),
      Doc([k \in {"uc2_components"} |-> JStr(<<"a", "b">>)]),
      Doc("name" :> JStr(<<"x">>) @@ "uc2_verified" :> JBool(TRUE) @@
          "uc2_components" :>
              JList(<<Path(<<"a", ".", "b">>), Path(<<"a", ".", "b">>),
                      Path(<<"d", "/", "a", "-", "b">>)>>)),
      Doc("author" :> JStr(<<"x">>) @@
          "uc2_components" :>
              JList(<<Path(<<"a", "-", "b">>), EmptyDict, JNum(7),
                      Path(<<>>), Comp(JNull)>>)),
      Doc("uc2_components" :>
              JList(<<Path(<<"a", "\\", "c">>), Path(<<"a", "/", "c">>)>>)),
      Doc("uc2_components" :> JList(<<Comp(JNum(5))>>)) }

\* every directory over the given names
Directories(names, contents) ==
    UNION {[S -> contents] : S \in SUBSET names}

\* the state of a process that has not run main() yet
Fresh ==
    /\ pc = "start"
    /\ json_files = <<>>
    /\ idx = 1
    /\ setup_data_list = <<>>
    /\ all_component_files = {}
    /\ log = {}
    /\ wrote = FALSE
    /\ csv_file = NoFile
    /\ run = 1
    /\ prev_csv = NoFile

Init ==
    /\ os_name \in {"posix", "nt"}
    /\ dir_exists \in BOOLEAN
    /\ IF dir_exists
       THEN \E d \in Directories(JsonNames, Corpus) :
                files = d @@ (OtherName :> Doc([k \in {} |-> JNull]))
       ELSE files = <<>>
    /\ Fresh

(***************************************************************************)
(* main().                                                                 *)
(***************************************************************************)
\* every order in which glob may enumerate the set S
Orders(S) ==
    {o \in [1..Cardinality(S) -> S] : \A i, j \in DOMAIN o : o[i] = o[j] => i = j}

\* main() up to the loop: a missing folder returns [], set() and main()
\* returns after its own error; otherwise glob lists the files
Start ==
    /\ pc = "start"
    /\ IF ~dir_exists
       THEN /\ log' = {"folder_not_found", "no_valid_setups"}
            /\ pc' = "done"
            /\ json_files' = <<>>
       ELSE /\ json_files' \in Orders(Glob(DOMAIN files))
            /\ log' = {}
            /\ pc' = "scan"
    /\ idx' = 1
    /\ setup_data_list' = <<>>
    /\ all_component_files' = {}
    /\ UNCHANGED <<os_name, dir_exists, files, wrote, csv_file, run, prev_csv>>

\* one iteration of "for json_file in json_files"
ProcessFile ==
    /\ pc = "scan"
    /\ idx <= Len(json_files)
    /\ LET name == json_files[idx]
           r == ProcessOne(name, files[name], setup_data_list,
                           all_component_files, os_name)
       IN  /\ setup_data_list' = r.list
           /\ all_component_files' = r.universe
           /\ log' = log \cup r.logged
           /\ IF r.next = "continue"
              THEN pc' = "scan" /\ idx' = idx + 1
              ELSE pc' = "crashed" /\ idx' = idx
    /\ UNCHANGED <<os_name, dir_exists, files, json_files, wrote, csv_file,
                   run, prev_csv>>

\* the loop is over: analyze_setups_folder returns and main() reports; the
\* summary printed after to_csv changes nothing of this state
Report ==
    /\ pc = "scan"
    /\ idx > Len(json_files)
    /\ LET r == main_report(setup_data_list, all_component_files)
       IN  /\ wrote' = r.wrote
           /\ csv_file' = IF r.wrote THEN r.file ELSE csv_file
           /\ log' = log \cup r.logged
    /\ pc' = "done"
    /\ UNCHANGED <<os_name, dir_exists, files, json_files, idx,
                   setup_data_list, all_component_files, run, prev_csv>>

\* main() is run again on the unchanged directory
Rerun ==
    /\ pc \in {"done", "crashed"}
    /\ run < MaxRuns
    /\ run' = run + 1
    /\ prev_csv' = csv_file
    /\ pc' = "start"
    /\ json_files' = <<>>
    /\ idx' = 1
    /\ setup_data_list' = <<>>
    /\ all_component_files' = {}
    /\ log' = {}
    /\ wrote' = FALSE
    /\ UNCHANGED <<os_name, dir_exists, files, csv_file>>

Next == Start \/ ProcessFile \/ Report \/ Rerun

Spec == Init /\ [][Next]_vars

(***************************************************************************)
(* A single run of main() on one generated document, for the properties    *)
(* of the Component Counter.                                               *)
(***************************************************************************)
PathAlphabet == {"c", "/", "\\"}

GeneratedPaths == SeqsUpTo(PathAlphabet, MaxPathLen)

\* file paths, a mapping without 'file', a non-mapping, a null and a
\* numeric 'file'
GeneratedEntries ==
    {Path(p) : p \in GeneratedPaths}
        \cup {EmptyDict, JNum(7), Comp(JNull), Comp(JNum(5))}

GeneratedComponents ==
    {JList(l) : l \in SeqsUpTo(GeneratedEntries, MaxComponents)}
        \cup {JNull, JNum(3), JStr(<<"c", "c">>), Comp(JStr(<<"c">>))}

GeneratedDocs ==
    {Doc([k \in {} |-> JNull])}
        \cup {Doc("uc2_components" :> v) : v \in GeneratedComponents}

InitCounter ==
    /\ os_name \in {"posix", "nt"}
    /\ dir_exists = TRUE
    /\ \E doc \in GeneratedDocs :
           files = (<<"a">> \o JsonExt :> doc)
                   @@ (OtherName :> Doc([k \in {} |-> JNull]))
    /\ Fresh

NextOnce == Start \/ ProcessFile \/ Report

SpecCounter == InitCounter /\ [][NextOnce]_vars

(***************************************************************************)
(* Vocabulary of the properties.                                           *)
(***************************************************************************)
Matched == Glob(DOMAIN files)

\* the loop has visited every file: analyze_setups_folder is returning
ScanOver == pc = "scan" /\ idx > Len(json_files)

\* positions of json_files the loop has entered, the one it died in included
Entered == {i \in DOMAIN json_files : i < idx \/ (i = idx /\ pc = "crashed")}

\* the file holds a JSON document, a mapping
IsDocument(content) == content.k = "json" /\ content.v.t = "dict"

\* the file gives the Loader something to return
Loads(content) == content.k = "json" /\ content.v # JNull

Records == Range(setup_data_list)

RecordsOf(name) == {r \in Records : r.filename = JStr(name)}

\* the value under uc2_components, or "absent"
ComponentsOf(content) ==
    IF "uc2_components" \in DOMAIN content.v.d
    THEN content.v.d["uc2_components"] ELSE [t |-> "absent"]

\* an entry that is a mapping with a non-empty string under 'file'
Usable(entry) ==
    /\ entry.t = "dict"
    /\ "file" \in DOMAIN entry.d
    /\ entry.d["file"].t = "str"
    /\ entry.d["file"].s # <<>>

\* the part of a path after its last separator of either kind
FinalSegment(p) == Suffix(p, RFind(p, {"/", "\\"}) + 1)

\* the final segments of the usable entries, in list order
FinalSegments(entries) ==
    LET usable == SelectSeq(entries, Usable)
    IN  [i \in DOMAIN usable |-> FinalSegment(usable[i].d["file"].s)]

\* sum(component_counts.values())
RECURSIVE SumCounts(_)
SumCounts(counts) ==
    IF DOMAIN counts = {} THEN 0
    ELSE LET x == CHOOSE y \in DOMAIN counts : TRUE
         IN  counts[x] + SumCounts([y \in DOMAIN counts \ {x} |-> counts[y]])

\* index of a column in the header of the written table, 0 when absent
ColumnIndex(table, column) ==
    IF \E i \in DOMAIN table.columns : table.columns[i] = column
    THEN CHOOSE i \in DOMAIN table.columns : table.columns[i] = column
    ELSE 0

\* the rows of the written table that carry the given file name
RowsOf(table, name) ==
    {i \in DOMAIN table.data : table.data[i][1] = JStr(name)}

\* the written table's rows are in strictly ascending order of filename
RowsAscending(table) ==
    \A i \in 1..(Len(table.data) - 1) :
        LexLess(table.data[i][1].s, table.data[i + 1][1].s)

(***************************************************************************)
(* C1.  Per-file errors are contained: no file makes the scan abort, and   *)
(* when the scan returns the result list holds exactly one record for each *)
(* matched file the Loader returned a document for, and none for the rest. *)
(***************************************************************************)
C1_PerFileErrorsContained ==
    /\ pc # "crashed"
    /\ ScanOver =>
        /\ \A f \in Matched :
              Cardinality({i \in DOMAIN setup_data_list :
                              setup_data_list[i].filename = JStr(f)})
                  = IF Loads(files[f]) THEN 1 ELSE 0
        /\ Len(setup_data_list) = Cardinality({f \in Matched : Loads(files[f])})

(***************************************************************************)
(* C2.  Every loaded document the loop has entered has a record whose      *)
(* total_components is the length of uc2_components when that is a list    *)
(* and 0 when it is absent, null or no list, with empty counts then.       *)
(***************************************************************************)
C2_TotalComponentsOrZero ==
    \A i \in Entered :
        LET name == json_files[i]
            content == files[name]
        IN  IsDocument(content) =>
                LET uc2 == ComponentsOf(content)
                IN  \E r \in RecordsOf(name) :
                        IF uc2.t = "list"
                        THEN r.total_components = JNum(Len(uc2.items))
                        ELSE /\ r.total_components = JNum(0)
                             /\ DOMAIN r.component_counts = {}

\* the folder is missing, or no matched file can be read and parsed
NothingParsed ==
    \/ ~dir_exists
    \/ \A f \in Matched : files[f].k \in {"unreadable", "malformed"}

(***************************************************************************)
(* C3.  A run writes the table only if some matched file held JSON; when   *)
(* the folder is missing, or no file matches, or every matched file is     *)
(* unreadable or malformed, the run does not raise, writes nothing and     *)
(* has logged its error by the time main() returns.                        *)
(***************************************************************************)
C3_NoWriteWithoutDocument ==
    /\ wrote => dir_exists /\ \E f \in Matched : files[f].k = "json"
    /\ NothingParsed =>
        /\ pc # "crashed"
        /\ ~wrote
        /\ csv_file = NoFile
        /\ pc = "done" => log \cap {"no_valid_setups", "no_setup_data"} # {}

C3_Witness ==
    /\ pc = "done"
    /\ dir_exists
    /\ Cardinality(Matched) = MaxFiles
    /\ NothingParsed
    /\ ~wrote
    /\ "no_valid_setups" \in log

(***************************************************************************)
(* C4.  Distinct component identifiers of the universe get distinct column *)
(* names, and the written table has one component column per identifier.   *)
(***************************************************************************)
C4_ColumnNamesUnique ==
    /\ \A a, b \in all_component_files : col_name(a) = col_name(b) => a = b
    /\ (pc = "done" /\ wrote) =>
            Len(csv_file.columns) =
                Len(FixedColumns) + Cardinality(all_component_files)

(***************************************************************************)
(* C5.  In the written table, the row of every record holds, in the column *)
(* of every identifier of the universe, that record's own count of the     *)
(* identifier (0 when the record does not have it).                        *)
(***************************************************************************)
C5_CellIsOwnCount ==
    (pc = "done" /\ wrote) =>
        \A r \in Records : \A id \in all_component_files :
            \E i \in RowsOf(csv_file, r.filename.s) :
                LET c == ColumnIndex(csv_file, col_name(id))
                IN  /\ c # 0
                    /\ csv_file.data[i][c] = JNum(CountOf(r.component_counts, id))

(***************************************************************************)
(* C7.  The counts of every record are the counts of the final path        *)
(* segments of its usable file values, whichever of '/' and '\' separates  *)
(* the segments.                                                           *)
(***************************************************************************)
C7_SeparatorAgnostic ==
    \A r \in Records :
        LET uc2 == ComponentsOf(files[r.filename.s])
        IN  uc2.t = "list" =>
                r.component_counts = Counter(FinalSegments(uc2.items))

(***************************************************************************)
(* C8.  For every document the loop has entered, extract_setup_metadata    *)
(* returns a record none of whose fixed fields is null and whose           *)
(* total_components is 0.                                                  *)
(***************************************************************************)
C8_FixedFieldsNonNull ==
    \A i \in Entered :
        LET name == json_files[i]
            content == files[name]
        IN  IsDocument(content) =>
                LET m == extract_setup_metadata(content.v, name)
                IN  /\ m.exc = "none"
                    /\ \A f \in FixedFields : m.val[f] # JNull
                    /\ m.val.total_components = JNum(0)

(***************************************************************************)
(* C9.  Whatever order glob enumerates the files in, a run on the          *)
(* unchanged directory leaves the same table as the run before it, and a   *)
(* written table has its rows in ascending filename order.                 *)
(***************************************************************************)
C9_OrderIndependentTable ==
    /\ (pc = "done" /\ run > 1) => csv_file = prev_csv
    /\ (pc = "done" /\ wrote) =>
        /\ RowsAscending(csv_file)
        /\ Len(csv_file.data) = Len(setup_data_list)

\* a later run that enumerated the files in descending order and wrote
C9_Witness ==
    /\ pc = "done"
    /\ run > 1
    /\ wrote
    /\ Len(json_files) >= 2
    /\ LexLess(json_files[2], json_files[1])
    /\ Len(csv_file.data) >= 2
    /\ prev_csv # NoFile

UniverseIsUnion ==
    all_component_files = UNION {DOMAIN r.component_counts : r \in Records}

ScanStepGrows ==
    pc = "scan" =>
        /\ all_component_files \subseteq all_component_files'
        /\ (idx <= Len(json_files) /\ files[json_files[idx]].k # "json") =>
                UNCHANGED <<all_component_files, setup_data_list>>

(***************************************************************************)
(* C10.  During a scan the universe is the union of the key sets of the    *)
(* records appended so far; an iteration never removes a member, and an    *)
(* iteration whose file fails to load changes neither the universe nor the *)
(* result list.                                                            *)
(***************************************************************************)
C10_UniverseIsUnionOfKeys == [](UniverseIsUnion) /\ [][ScanStepGrows]_vars

\* mid-scan, after a skipped file and a record with components
C10_Witness ==
    /\ pc = "scan"
    /\ idx = 3
    /\ files[json_files[1]].k # "json"
    /\ Len(setup_data_list) = 1
    /\ Cardinality(all_component_files) >= 2

(***************************************************************************)
(* C6.  For every record, the sum of its counts is at most its             *)
(* total_components; when uc2_components is a list the two are equal       *)
(* exactly if every entry is a mapping with a non-empty string 'file'.     *)
(***************************************************************************)
C6_SumAtMostTotal ==
    \A r \in Records :
        LET uc2 == ComponentsOf(files[r.filename.s])
            sum == SumCounts(r.component_counts)
        IN  /\ sum <= r.total_components.n
            /\ uc2.t = "list" =>
                ((sum = r.total_components.n)
                    <=> \A i \in DOMAIN uc2.items : Usable(uc2.items[i]))

\* a record of a list that mixes a usable and an unusable entry
C6_Witness ==
    \E r \in Records :
        LET uc2 == ComponentsOf(files[r.filename.s])
        IN  /\ uc2.t = "list"
            /\ Len(uc2.items) = MaxComponents
            /\ \E i \in DOMAIN uc2.items : Usable(uc2.items[i])
            /\ \E i \in DOMAIN uc2.items : ~Usable(uc2.items[i])
            /\ SumCounts(r.component_counts) < r.total_components.n

=============================================================================
